---- MODULE Spec2Model ----
(***************************************************************************)
(* Orchestration core of the Sena chat front end (src/unnamed/part_000):   *)
(* handleSendMessage (the pass state machine), MistralService.sendMessage  *)
(* (one completion exchange), the tool loop, and the two storage backends  *)
(* behind loadChatHistory / saveMessageToHistory / handleClearChat.        *)
(*                                                                         *)
(* Granularity.  JavaScript runs to completion between awaits that wait on *)
(* the network, so one action is one such run: the code from an event (a   *)
(* submit, a click, a response arriving) up to the next network wait.  An  *)
(* await of an already settled promise (await saveMessageToHistory(..))    *)
(* only defers to a microtask, which no other event can precede, so it     *)
(* does not end an action.  React commits the state set during a discrete  *)
(* event and its microtasks before the next event is dispatched, so a      *)
(* handler called by an event reads the state as of that event; the values *)
(* a running handler captured (messages, conversationMode) stay as they    *)
(* were when it was called.                                                *)
(***************************************************************************)
EXTENDS Integers, Sequences, FiniteSets, TLC

\* ---------------------------------------------------------------- bounds
MaxPasses  == 2    \* accepted handleSendMessage calls in one behaviour
MaxCalls   == 2    \* tool calls in one completion response
MaxReloads == 1    \* page reloads (a new App is constructed and mounted)
MaxInsertFailures == 1  \* inserts into the remote table that fail

\* ---------------------------------------------------------------- values
\* An optional value is a sequence of length 0 (undefined / null) or 1.
Undefined == "undefined"
None      == <<>>
Some(v)   == <<v>>

\* Text is a sequence of pieces; a template literal concatenates pieces.
Text(s) == <<s>>

\* interface Message: role, content, tool_calls?, tool_call_id?, name?
Msg(role, content, tool_calls, tool_call_id, name) ==
  [role |-> role, content |-> content, tool_calls |-> tool_calls,
   tool_call_id |-> tool_call_id, name |-> name]

\* interface ToolCall
ToolCall(id, name, arguments) ==
  [id |-> id, type |-> "function",
   function |-> [name |-> name, arguments |-> arguments]]

ConversationModes == {"Explicativo", "Profissional", "Descontraido"}

\* ------------------------------------------------------------- state
VARIABLES
  supabase,          \* whether the module-level client is non-null (line 19)
  apiKey,            \* whether process.env.API_KEY is set
  quota,             \* whether localStorage.setItem('sena-history', ..) throws
                     \*   (the log no longer fits the storage quota)
  messages,          \* useState<Message[]>: the in-memory log
  isLoading,         \* useState<boolean>: the busy flag
  conversationMode,  \* useState<ConversationMode>
  localHistory,      \* localStorage['sena-history']: None or Some(log)
  remote,            \* rows of the supabase table 'messages'
  pending,           \* insert requests sent to supabase and not yet answered
  clock,             \* the last value new Date() returned
  loadPc,            \* the mount's loadChatHistory: "select" in flight, or "done"
  pc,                \* where the running handleSendMessage waits
  pass,              \* its captured values and local arrays
  requests,          \* the bodies of the requests the running pass has sent
  outcome,           \* history: how the last pass of this page ended and how
                     \*   many requests it had sent
  loaded,            \* history: what the last load of this page took
  lastCall,          \* history: what the last handleSendMessage call did
                     \*   (recorded under SpecCalls only)
  nPasses,           \* history: accepted calls so far
  nReloads,          \* history: reloads so far
  nInsertFailures    \* history: inserts that have failed so far

vars == << supabase, apiKey, quota, messages, isLoading, conversationMode,
           localHistory, remote, pending, clock, loadPc, pc, pass, requests,
           outcome, loaded, lastCall, nPasses, nReloads, nInsertFailures >>

\* ------------------------------------------------- MistralService (pure)
\* MistralService.tools: the declared capabilities, each with its one
\* required string property.
tools ==
  << [name |-> "generate_image", required |-> <<"prompt">>],
     [name |-> "web_search",     required |-> <<"query">>] >>

\* String.prototype.toUpperCase on the three mode names.
toUpperCase(mode) ==
  CASE mode = "Explicativo"  -> "EXPLICATIVO"
    [] mode = "Profissional" -> "PROFISSIONAL"
    [] mode = "Descontraido" -> "DESCONTRAIDO"

\* The lookup modeSpecifics[mode].
modeSpecifics(mode) ==
  CASE mode = "Explicativo"  -> "tom paciente, didatico e acolhedor"
    [] mode = "Profissional" -> "tom executivo, direto e focado em eficiencia"
    [] mode = "Descontraido" -> "tom leve, divertido e criativo"

\* A prompt that also tells the model how long the conversation is.
getSystemPromptWithLog(mode) ==
  << "Voce e Sena ... DIRETRIZES ... MODO ATUAL: ", toUpperCase(mode),
     modeSpecifics(mode), "MENSAGENS: ", Len(messages) >>

\* getSystemPrompt: basePrompt (which embeds mode.toUpperCase()) followed by
\* modeSpecifics[mode].
getSystemPrompt(mode) ==
  << "Voce e Sena ... DIRETRIZES ... MODO ATUAL: ", toUpperCase(mode),
     modeSpecifics(mode) >>

\* A map that leaves the tool messages out of the history.
validMessagesWithoutTools(history) ==
  SelectSeq(history, LAMBDA msg : msg.role # "tool")

\* validMessages: history.map(msg => the five fields of msg).
validMessages(history) ==
  [i \in 1..Len(history) |->
     Msg(history[i].role, history[i].content, history[i].tool_calls,
         history[i].tool_call_id, history[i].name)]

\* messagesPayload: the system message and then validMessages.
messagesPayload(history, mode) ==
  << Msg("system", getSystemPrompt(mode), None, Undefined, Undefined) >>
    \o validMessages(history)

\* The body of the POST that sendMessage issues.
RequestBody(history, mode) ==
  [model |-> "mistral-small-latest", messages |-> messagesPayload(history, mode),
   tools |-> tools, tool_choice |-> "auto"]

\* What the completion service can answer (or the network do) to one request:
\*   ok      response.ok, data.choices[0].message = message
\*   status  !response.ok with response.status, err.message (optional) and
\*           response.statusText; json: whether the body is JSON at all
\*   reject  fetch itself rejects
OkResponse(message) ==
  [kind |-> "ok", status |-> 200, errMessage |-> None, statusText |-> "OK",
   json |-> TRUE, message |-> Some(message)]
StatusResponse(status, errMessage, statusText) ==
  [kind |-> "status", status |-> status, errMessage |-> errMessage,
   statusText |-> statusText, json |-> TRUE, message |-> None]
StatusResponseNotJson(status, statusText) ==
  [kind |-> "status", status |-> status, errMessage |-> None,
   statusText |-> statusText, json |-> FALSE, message |-> None]
RejectResponse ==
  [kind |-> "reject", status |-> 0, errMessage |-> None, statusText |-> "",
   json |-> FALSE, message |-> None]

\* The result of the awaited sendMessage: the message returned, or the Error
\* thrown (its message as Text).
Returned(message) == [threw |-> FALSE, message |-> Some(message), error |-> <<>>]
Thrown(error)     == [threw |-> TRUE,  message |-> None,          error |-> error]

\* The message of the SyntaxError response.json() rejects with when the body
\* of the response is not JSON.
BodySyntaxErrorMessage == Text("Unexpected token '<' is not valid JSON")

InvalidKeyMessage == Text("Chave de API invalida. Verifique suas configuracoes.")

\* sendMessage after the fetch settles: lines 164-176.  The body of a
\* response that is not ok is read by response.json() (line 166), whose
\* rejection is the error thrown when the body is not JSON.
sendMessageResult(response) ==
  IF response.kind = "reject"
    THEN Thrown(Text("Failed to fetch"))
  ELSE IF response.kind = "status"
    THEN IF response.status = 401
           THEN Thrown(InvalidKeyMessage)
         ELSE IF ~response.json
           THEN Thrown(BodySyntaxErrorMessage)
           ELSE Thrown(<< "Erro API Mistral: ",
                          IF response.errMessage # None
                            THEN response.errMessage[1]
                            ELSE response.statusText >>)
  ELSE Returned(response.message[1])

\* ----------------------------------------------------- tool execution
\* A JavaScript value read from a parsed argument object.
JsString(s) == [t |-> "string",    v |-> s]
JsNumber(s) == [t |-> "number",    v |-> s]
JsUndefined == [t |-> "undefined", v |-> "undefined"]

\* The argument payloads the model is given to send.
ArgsPrompt    == "{\"prompt\":\"a cat\"}"
ArgsQuery     == "{\"query\":\"news\"}"
ArgsEmpty     == "{}"
ArgsQueryNum  == "{\"query\":42}"
ArgsTruncated == "{\"prompt\":"

\* JSON.parse on those payloads: the object's prompt and query properties,
\* or a SyntaxError.
JSONparse(text) ==
  CASE text = ArgsPrompt
         -> [ok |-> TRUE, prompt |-> JsString("a cat"), query |-> JsUndefined]
    [] text = ArgsQuery
         -> [ok |-> TRUE, prompt |-> JsUndefined, query |-> JsString("news")]
    [] text = ArgsEmpty
         -> [ok |-> TRUE, prompt |-> JsUndefined, query |-> JsUndefined]
    [] text = ArgsQueryNum
         -> [ok |-> TRUE, prompt |-> JsUndefined, query |-> JsNumber("42")]
    [] OTHER
         -> [ok |-> FALSE, prompt |-> JsUndefined, query |-> JsUndefined]

SyntaxErrorMessage == Text("Unexpected end of JSON input")

\* String(value), as a template literal and encodeURIComponent apply it.
String(value) == value.v

encodeURIComponent(value) ==
  IF String(value) = "a cat" THEN "a%20cat" ELSE String(value)

\* Lines 333-343: the result text of one tool call with parsed arguments.
toolResult(functionName, functionArgs) ==
  IF functionName = "generate_image"
    THEN << "Imagem gerada com sucesso: ![", String(functionArgs.prompt),
            "](https://image.pollinations.ai/prompt/",
            encodeURIComponent(functionArgs.prompt),
            "?width=1024&height=1024&nologo=true)" >>
  ELSE IF functionName = "web_search"
    THEN << "Resultado da busca para \"", String(functionArgs.query),
            "\": [Informacao recuperada ...]" >>
  ELSE Text("Ferramenta desconhecida.")

\* A tool message that names the tool but not the call it answers.
toolMessageUnlinked(toolCall, functionArgs) ==
  Msg("tool", toolResult(toolCall.function.name, functionArgs), None,
      Undefined, toolCall.function.name)

\* Lines 346-351.
toolMessage(toolCall, functionArgs) ==
  Msg("tool", toolResult(toolCall.function.name, functionArgs), None,
      toolCall.id, toolCall.function.name)

\* A loop that answers a call whose arguments do not parse with a result of
\* its own and goes on to the next call.
RECURSIVE toolLoopSkipping(_, _, _)
toolLoopSkipping(tool_calls, i, pushed) ==
  IF i > Len(tool_calls)
    THEN [threw |-> FALSE, pushed |-> pushed, error |-> <<>>]
    ELSE LET toolCall     == tool_calls[i]
             functionArgs == JSONparse(toolCall.function.arguments)
         IN  toolLoopSkipping(tool_calls, i + 1,
               Append(pushed,
                      IF functionArgs.ok
                        THEN toolMessage(toolCall, functionArgs)
                        ELSE Msg("tool", Text("Argumentos invalidos."), None,
                                 toolCall.id, toolCall.function.name)))

\* A loop that puts each tool message before those of the earlier calls.
RECURSIVE toolLoopNewestFirst(_, _, _)
toolLoopNewestFirst(tool_calls, i, pushed) ==
  IF i > Len(tool_calls)
    THEN [threw |-> FALSE, pushed |-> pushed, error |-> <<>>]
    ELSE LET toolCall     == tool_calls[i]
             functionArgs == JSONparse(toolCall.function.arguments)
         IN  IF ~functionArgs.ok
               THEN [threw |-> TRUE, pushed |-> pushed, error |-> SyntaxErrorMessage]
               ELSE toolLoopNewestFirst(tool_calls, i + 1,
                      << toolMessage(toolCall, functionArgs) >> \o pushed)

\* A loop that throws at a call of a tool that is not declared.
RECURSIVE toolLoopRejectingUnknown(_, _, _)
toolLoopRejectingUnknown(tool_calls, i, pushed) ==
  IF i > Len(tool_calls)
    THEN [threw |-> FALSE, pushed |-> pushed, error |-> <<>>]
    ELSE LET toolCall     == tool_calls[i]
             functionArgs == JSONparse(toolCall.function.arguments)
         IN  IF \/ ~functionArgs.ok
                \/ \A t \in 1..Len(tools) : tools[t].name # toolCall.function.name
               THEN [threw |-> TRUE, pushed |-> pushed,
                     error |-> IF functionArgs.ok THEN Text("Ferramenta desconhecida.")
                               ELSE SyntaxErrorMessage]
               ELSE toolLoopRejectingUnknown(tool_calls, i + 1,
                      Append(pushed, toolMessage(toolCall, functionArgs)))

\* Lines 327-355: the for loop over assistantResponse.tool_calls.  It yields
\* the tool messages pushed, in order, or the error JSON.parse threw (the
\* loop is left at the first throw; what was pushed stays in the two local
\* arrays, which the catch block never reads).
RECURSIVE toolLoop(_, _, _)
toolLoop(tool_calls, i, pushed) ==
  IF i > Len(tool_calls)
    THEN [threw |-> FALSE, pushed |-> pushed, error |-> <<>>]
    ELSE LET toolCall     == tool_calls[i]
             functionArgs == JSONparse(toolCall.function.arguments)
         IN  IF ~functionArgs.ok
               THEN [threw |-> TRUE, pushed |-> pushed, error |-> SyntaxErrorMessage]
               ELSE toolLoop(tool_calls, i + 1,
                             Append(pushed, toolMessage(toolCall, functionArgs)))

\* A check of the presence of tool_calls only.
wantsToolsWhenPresent(assistantResponse) == assistantResponse.tool_calls # None

\* Line 321: assistantResponse.tool_calls && assistantResponse.tool_calls.length > 0
wantsTools(assistantResponse) ==
  /\ assistantResponse.tool_calls # None
  /\ Len(assistantResponse.tool_calls[1]) > 0

\* Lines 370-373: the message the catch block saves.
WarningMarker == "(!) Desculpe, ocorreu um erro: "
errorMessage(error) ==
  Msg("assistant", <<WarningMarker>> \o error, None, Undefined, Undefined)

\* ------------------------------------------------------ groups of state
config  == << supabase, apiKey, quota >>
history == << lastCall, nPasses, nReloads, nInsertFailures >>

Outcome(how, sent) == [how |-> how, sent |-> sent]
Loaded(source, error) == [source |-> source, error |-> error]

\* Whether the App is still mounted.  An updater that throws (line 262, when
\* the storage is full) throws while React renders; there is no error
\* boundary, so React unmounts the whole tree and reports the error to the
\* browser, not to the code that called setMessages.  With a full storage
\* that is the case from the first save of a page on.
mounted == ~(quota /\ (pc # "Idle" \/ outcome.how # "none"))

\* ------------------------------------------------------- MessageStore
\* JSON.stringify / JSON.parse of a tool_calls array: the text carries the
\* array; no other value is ever written to the column.
JSONstringify(value) == [json |-> value]
JSONparseColumn(text) == text.json

\* Lines 268-273: the rows built from the new messages.  tool_call_id and
\* name are not among the columns.
records(newMessages, now) ==
  [i \in 1..Len(newMessages) |->
     [role       |-> newMessages[i].role,
      content    |-> newMessages[i].content,
      tool_calls |-> IF newMessages[i].tool_calls # None
                       THEN Some(JSONstringify(newMessages[i].tool_calls[1]))
                       ELSE None,
      created_at |-> now]]

\* An updater that sends the whole updated log to the remote table.
saveMessageToHistorySendingAll(store, newMessages, now) ==
  [messages     |-> store.messages \o newMessages,
   localHistory |-> Some(store.messages \o newMessages),
   pending      |-> IF supabase
                      THEN store.pending
                             \cup {records(store.messages \o newMessages, now)}
                      ELSE store.pending]

\* An updater that keeps the new messages only.
saveMessageToHistoryReplacing(store, newMessages, now) ==
  [messages     |-> newMessages,
   localHistory |-> Some(newMessages),
   pending      |-> IF supabase
                      THEN store.pending \cup {records(newMessages, now)}
                      ELSE store.pending]

\* Lines 258-280: the updater given to setMessages, applied to the current
\* state prev; it overwrites the local record with the whole updated log and
\* sends the new rows only.  store = [messages, localHistory, pending].
saveMessageToHistory(store, newMessages, now) ==
  LET updated == store.messages \o newMessages
  IN  IF quota
        \* setItem throws inside the updater: nothing is written or sent, and
        \* the tree that held the state is unmounted.
        THEN [messages     |-> <<>>,
              localHistory |-> store.localHistory,
              pending      |-> store.pending]
        ELSE [messages     |-> updated,
              localHistory |-> Some(updated),
              pending      |-> IF supabase
                                 THEN store.pending \cup {records(newMessages, now)}
                                 ELSE store.pending]

CurrentStore ==
  [messages |-> messages, localHistory |-> localHistory, pending |-> pending]

\* Lines 229-234: the mapper from rows to messages.
formatted(data) ==
  [i \in 1..Len(data) |->
     Msg(data[i].role, data[i].content,
         IF data[i].tool_calls # None
           THEN Some(JSONparseColumn(data[i].tool_calls[1]))
           ELSE None,
         Undefined, Undefined)]

\* s with x put in at position p (1..Len(s)+1).
InsertAt(s, p, x) == SubSeq(s, 1, p - 1) \o <<x>> \o SubSeq(s, p, Len(s))

\* .order('created_at', {ascending: true}): every arrangement of rows that
\* is ascending in created_at; rows with equal created_at come in any order.
RECURSIVE Ordered(_)
Ordered(rows) ==
  IF rows = <<>> THEN { <<>> }
  ELSE LET x == rows[Len(rows)]
       IN  UNION { { InsertAt(s, p, x) :
                       p \in { q \in 1..(Len(s) + 1) :
                                 /\ \A j \in 1..(q - 1) : s[j].created_at <= x.created_at
                                 /\ \A j \in q..Len(s)  : s[j].created_at >= x.created_at } } :
                   s \in Ordered(SubSeq(rows, 1, Len(rows) - 1)) }

\* Lines 244-253: the fallback; the state is set only when the key exists.
localFallback(current) ==
  IF localHistory # None THEN localHistory[1] ELSE current

\* ------------------------------------------------------------ inputs
\* What the user submits: a request, the empty text, and text that trim()
\* empties.
UserInputs == {"draw a cat", "", "   "}
trim(userInput) == IF userInput \in {"", "   "} THEN "" ELSE userInput

\* The tool-call lists the model is given to issue, as (name, arguments):
\* a declared tool with good arguments; two calls of different tools; three
\* calls, one of an undeclared tool and one whose required property is a
\* number; a declared tool whose arguments lack the required property; an
\* undeclared tool; and a call whose arguments do not parse, after one whose
\* arguments do.
ToolCallKinds ==
  { << <<"generate_image", ArgsPrompt>> >>,
    << <<"generate_image", ArgsPrompt>>, <<"web_search", ArgsQuery>> >>,
    << <<"web_search", ArgsQueryNum>>, <<"get_weather", ArgsEmpty>>,
       <<"generate_image", ArgsPrompt>> >>,
    << <<"generate_image", ArgsEmpty>> >>,
    << <<"get_weather", ArgsEmpty>> >>,
    << <<"generate_image", ArgsPrompt>>, <<"generate_image", ArgsTruncated>> >> }

CallIds == <<"call_1", "call_2", "call_3", "call_4">>

\* The lists of at most MaxCalls calls; the i-th call has the i-th id.
ToolCallLists ==
  { [i \in 1..Len(kinds) |-> ToolCall(CallIds[i], kinds[i][1], kinds[i][2])] :
      kinds \in { k \in ToolCallKinds : Len(k) <= MaxCalls } }

PlainReply == Msg("assistant", Text("reply"), None, Undefined, Undefined)
EmptyToolsReply == Msg("assistant", Text("reply"), Some(<<>>), Undefined, Undefined)
ToolsReply(tool_calls) == Msg("assistant", Text(""), Some(tool_calls), Undefined, Undefined)

FailureResponses ==
  { StatusResponse(401, Some("Unauthorized"), "Unauthorized"),
    StatusResponse(429, Some("Rate limit exceeded"), "Too Many Requests"),
    StatusResponse(503, None, "Service Unavailable"),
    StatusResponseNotJson(502, "Bad Gateway"),
    RejectResponse }

FirstResponses ==
  { OkResponse(PlainReply), OkResponse(EmptyToolsReply) }
    \cup { OkResponse(ToolsReply(c)) : c \in ToolCallLists }
    \cup FailureResponses

\* The second response may itself ask for tools.
SecondResponses ==
  { OkResponse(PlainReply),
    OkResponse(ToolsReply(<<ToolCall("call_9", "web_search", ArgsQuery)>>)),
    StatusResponse(401, Some("Unauthorized"), "Unauthorized") }

\* ------------------------------------------------------------- Init
NoPass ==
  [messages |-> <<>>, conversationMode |-> "Explicativo",
   userMsg |-> Msg("user", <<>>, None, Undefined, Undefined),
   toolUseHistory |-> <<>>, newMessagesToSave |-> <<>>]

\* A first visit: both stores empty, the App constructed and mounted.  The
\* mount effect calls loadChatHistory (line 213), which without a client runs
\* to its end at once and with one waits for the select.
Init ==
  /\ supabase \in BOOLEAN
  /\ apiKey \in BOOLEAN
  /\ quota = FALSE
  /\ messages = <<>>
  /\ isLoading = FALSE
  /\ conversationMode = "Explicativo"
  /\ localHistory = None
  /\ remote = <<>>
  /\ pending = {}
  /\ clock = 0
  /\ loadPc = IF supabase THEN "select" ELSE "done"
  /\ pc = "Idle"
  /\ pass = NoPass
  /\ outcome = Outcome("none", 0)
  /\ loaded = IF supabase THEN Loaded("none", FALSE) ELSE Loaded("local", FALSE)
  /\ requests = <<>>
  /\ lastCall = "none"
  /\ nPasses = 0
  /\ nReloads = 0
  /\ nInsertFailures = 0

\* ---------------------------------------------------- handleSendMessage
\* A guard that looks at the busy flag only.
acceptsBlank(userInput) == ~isLoading

\* A guard that looks at the input only.
acceptsWhileBusy(userInput) == ~(trim(userInput) = "")

\* Line 308: the guard.
accepts(userInput) == ~(trim(userInput) = "" \/ isLoading)

\* A catch block that saves what the pass had gathered as well.
catchBatchKeeping(newMessagesToSave, error) ==
  newMessagesToSave \o << errorMessage(error) >>

\* Lines 368-373: what the catch block saves, given the pass's local
\* newMessagesToSave (out of its scope) and the error caught.
catchBatch(newMessagesToSave, error) == << errorMessage(error) >>

\* An end of a pass without the finally block: the busy flag stays up.
EndPassKeepingBusy(batch, how) ==
  LET after == saveMessageToHistory(CurrentStore, batch, clock + 1)
  IN  /\ messages' = after.messages
      /\ localHistory' = after.localHistory
      /\ pending' = after.pending
      /\ clock' = clock + 1
      /\ pc' = "Idle"
      /\ pass' = NoPass
      /\ requests' = <<>>
      /\ outcome' = Outcome(how, Len(requests))
      /\ UNCHANGED << config, isLoading, conversationMode, remote, loadPc, loaded,
                      history >>

\* The end of a pass: one saveMessageToHistory of batch, then
\* setIsLoading(false) in the finally block.
EndPass(batch, how) ==
  LET after == saveMessageToHistory(CurrentStore, batch, clock + 1)
  IN  /\ messages' = after.messages
      /\ localHistory' = after.localHistory
      /\ pending' = after.pending
      /\ clock' = clock + 1
      /\ isLoading' = FALSE
      /\ pc' = "Idle"
      /\ pass' = NoPass
      /\ requests' = <<>>
      /\ outcome' = Outcome(how, Len(requests))
      /\ UNCHANGED << config, conversationMode, remote, loadPc, loaded, history >>

\* Lines 307-318.  A rejected call returns at line 308.  An accepted one
\* saves the user message, sets the busy flag and, with a key, sends the
\* first request and waits; without a key it throws at line 315 and ends in
\* the catch block within the same run.  recorded: whether lastCall notes
\* the call.
handleSendMessage(userInput, recorded) ==
  IF ~accepts(userInput)
    THEN /\ lastCall' = IF ~recorded THEN lastCall
                        ELSE IF trim(userInput) = "" THEN "blank" ELSE "busy"
         /\ UNCHANGED << config, messages, isLoading, conversationMode,
                         localHistory, remote, pending, clock, loadPc, pc,
                         pass, requests, outcome, loaded, nPasses, nReloads,
                         nInsertFailures >>
    ELSE
      /\ nPasses < MaxPasses
      /\ LET userMsg == Msg("user", Text(userInput), None, Undefined, Undefined)
             first   == saveMessageToHistory(CurrentStore, <<userMsg>>, clock + 1)
         IN  /\ lastCall' = IF recorded THEN "accepted" ELSE lastCall
             /\ nPasses' = nPasses + 1
             /\ UNCHANGED << config, conversationMode, remote, loadPc, loaded,
                             nReloads, nInsertFailures >>
             /\ IF apiKey
                  THEN /\ messages' = first.messages
                       /\ localHistory' = first.localHistory
                       /\ pending' = first.pending
                       /\ clock' = clock + 1
                       \* setIsLoading(true) sets nothing in a tree that the
                       \* save has unmounted
                       /\ isLoading' = ~quota
                       /\ pc' = "AwaitingFirstCompletion"
                       /\ pass' = [NoPass EXCEPT
                                     !.messages = messages,
                                     !.conversationMode = conversationMode,
                                     !.userMsg = userMsg]
                       /\ requests' = << RequestBody(messages \o <<userMsg>>,
                                                    conversationMode) >>
                       /\ outcome' = Outcome("none", 0)
                  ELSE \E now \in {clock + 1, clock + 2} :
                         LET batch == catchBatch(<<>>,
                                        Text("Chave API Mistral nao encontrada."))
                             after == saveMessageToHistory(first, batch, now)
                         IN  /\ messages' = after.messages
                             /\ localHistory' = after.localHistory
                             /\ pending' = after.pending
                             /\ clock' = now
                             /\ isLoading' = FALSE
                             /\ pc' = "Idle"
                             /\ pass' = NoPass
                             /\ requests' = <<>>
                             /\ outcome' = Outcome("Failed", 0)

\* The form that calls it is there while the App is mounted.
HandleSendMessage(userInput) == mounted /\ handleSendMessage(userInput, FALSE)

\* A handler that saves the tool batch as soon as the tools have run.
FirstResponseSavingTools(response) ==
  /\ pc = "AwaitingFirstCompletion"
  /\ LET result == sendMessageResult(response)
     IN  IF result.threw
           THEN EndPass(catchBatch(<<>>, result.error), "Failed")
         ELSE LET assistantResponse == result.message[1]
              IN  IF ~wantsTools(assistantResponse)
                    THEN EndPass(<<assistantResponse>>, "Done")
                  ELSE LET loop == toolLoop(assistantResponse.tool_calls[1], 1, <<>>)
                           after == saveMessageToHistory(CurrentStore,
                                      <<assistantResponse>> \o loop.pushed, clock + 1)
                       IN  IF loop.threw
                             THEN EndPass(catchBatch(<<assistantResponse>> \o loop.pushed,
                                                     loop.error), "Failed")
                             ELSE /\ pc' = "AwaitingSecondCompletion"
                                  /\ pass' = [pass EXCEPT
                                       !.toolUseHistory =
                                          pass.messages \o <<pass.userMsg, assistantResponse>>
                                            \o loop.pushed,
                                       !.newMessagesToSave = <<>>]
                                  /\ requests' = Append(requests,
                                       RequestBody(pass'.toolUseHistory,
                                                   pass.conversationMode))
                                  /\ messages' = after.messages
                                  /\ localHistory' = after.localHistory
                                  /\ pending' = after.pending
                                  /\ clock' = clock + 1
                                  /\ UNCHANGED << config, isLoading, conversationMode,
                                       remote, loadPc, outcome, loaded, history >>

\* Lines 318-356 and the catch: the first response arrives.
FirstResponse(response) ==
  /\ pc = "AwaitingFirstCompletion"
  /\ LET result == sendMessageResult(response)
     IN  IF result.threw
           THEN EndPass(catchBatch(<<>>, result.error), "Failed")
         ELSE LET assistantResponse == result.message[1]
              IN  IF ~wantsTools(assistantResponse)
                    THEN EndPass(<<assistantResponse>>, "Done")
                  ELSE LET loop == toolLoop(assistantResponse.tool_calls[1], 1, <<>>)
                       IN  IF loop.threw
                             THEN EndPass(catchBatch(<<assistantResponse>> \o loop.pushed,
                                                     loop.error), "Failed")
                             ELSE /\ pc' = "AwaitingSecondCompletion"
                                  /\ pass' = [pass EXCEPT
                                       !.toolUseHistory =
                                          pass.messages \o <<pass.userMsg, assistantResponse>>
                                            \o loop.pushed,
                                       !.newMessagesToSave =
                                          <<assistantResponse>> \o loop.pushed]
                                  /\ requests' = Append(requests,
                                       RequestBody(pass'.toolUseHistory,
                                                   pass.conversationMode))
                                  /\ UNCHANGED << config, messages, isLoading,
                                       conversationMode, localHistory, remote,
                                       pending, clock, loadPc, outcome, loaded, history >>

\* A handler that sends the second request once more when it has failed.
SecondResponseRetrying(response) ==
  /\ pc = "AwaitingSecondCompletion"
  /\ LET result == sendMessageResult(response)
     IN  IF result.threw /\ Len(requests) < 3
           THEN /\ requests' = Append(requests, requests[2])
                /\ UNCHANGED << config, messages, isLoading, conversationMode,
                                localHistory, remote, pending, clock, loadPc, pc,
                                pass, outcome, loaded, history >>
         ELSE IF result.threw
           THEN EndPass(catchBatch(pass.newMessagesToSave, result.error), "Failed")
           ELSE EndPass(Append(pass.newMessagesToSave, result.message[1]), "Done")

\* Lines 358-361 and the catch: the second response arrives.
SecondResponse(response) ==
  /\ pc = "AwaitingSecondCompletion"
  /\ LET result == sendMessageResult(response)
     IN  IF result.threw
           THEN EndPass(catchBatch(pass.newMessagesToSave, result.error), "Failed")
           ELSE EndPass(Append(pass.newMessagesToSave, result.message[1]), "Done")

\* ------------------------------------------------- the remote mirror
\* The table with rows added.  A table has no order of its own (the select
\* orders it), so it is kept here in created_at order, rows of equal
\* created_at as they arrived.
inserted(table, rows) ==
  IF rows = <<>> THEN table
  ELSE LET earlier == SelectSeq(table, LAMBDA r : r.created_at <= rows[1].created_at)
           later   == SelectSeq(table, LAMBDA r : r.created_at > rows[1].created_at)
       IN  earlier \o rows \o later

RECURSIVE insertedAll(_, _)
insertedAll(table, batches) ==
  IF batches = {} THEN table
  ELSE LET rows == CHOOSE r \in batches : TRUE
       IN  insertedAll(inserted(table, rows), batches \ {rows})

\* A failed insert that reaches the caller: the pass in flight is ended and
\* a warning put in the log.
InsertFailsLoudly(rows) ==
  /\ rows \in pending
  /\ nInsertFailures < MaxInsertFailures
  /\ nInsertFailures' = nInsertFailures + 1
  /\ pending' = pending \ {rows}
  /\ messages' = Append(messages, errorMessage(Text("Erro ao salvar no Supabase")))
  /\ isLoading' = FALSE
  /\ pc' = "Idle"
  /\ pass' = NoPass
  /\ requests' = <<>>
  /\ outcome' = Outcome("Failed", Len(requests))
  /\ UNCHANGED << config, conversationMode, localHistory, remote, clock, loadPc,
                  loaded, lastCall, nPasses, nReloads >>

\* Lines 274-276: an insert sent earlier fails; the error is printed.
InsertFails(rows) ==
  /\ rows \in pending
  /\ nInsertFailures < MaxInsertFailures
  /\ nInsertFailures' = nInsertFailures + 1
  /\ pending' = pending \ {rows}
  /\ UNCHANGED << config, messages, isLoading, conversationMode, localHistory,
                  remote, clock, loadPc, pc, pass, requests, outcome, loaded,
                  lastCall, nPasses, nReloads >>

\* -------------------------------------------------------- loadChatHistory
\* A load that takes whatever a select without error returned, rows or none.
loadChatHistoryPrimaryOnly(error, data, current) ==
  IF ~error THEN formatted(data) ELSE localFallback(current)

\* Lines 227-253, once the select has settled with (error, data): a result
\* without error and with rows replaces the state by the mapped rows;
\* anything else falls back to the local record.
loadChatHistory(error, data, current) ==
  IF ~error /\ Len(data) > 0 THEN formatted(data) ELSE localFallback(current)

\* What the select may return from table: with anyOrder, every arrangement
\* ascending in created_at; without, the one in which rows of equal
\* created_at come as they were inserted.
selected(table, anyOrder) == IF anyOrder THEN Ordered(table) ELSE { table }

\* The select of the mount's loadChatHistory settles: with an error (or a
\* throw, caught at line 239), or with the table's rows in created_at order.
\* Nothing but a select reads the table, so an insert's arrival (line 274)
\* is taken here: of the inserts still on their way, any may have arrived
\* by now; one that never arrives has failed or is still on its way.
loadReturn(anyOrder) ==
  /\ loadPc = "select"
  /\ \E error \in BOOLEAN, arrived \in SUBSET pending :
       /\ remote' = insertedAll(remote, arrived)
       /\ pending' = pending \ arrived
       /\ \E data \in (IF error THEN { <<>> } ELSE selected(remote', anyOrder)) :
            /\ messages' = loadChatHistory(error, data, messages)
            /\ loaded' = Loaded(IF ~error /\ Len(data) > 0 THEN "primary" ELSE "local",
                                error)
  /\ loadPc' = "done"
  /\ UNCHANGED << config, isLoading, conversationMode, localHistory, clock,
                  pc, pass, requests, outcome, history >>

LoadReturn == loadReturn(FALSE)
LoadReturnAnyOrder == loadReturn(TRUE)

\* -------------------------------------------------------- handleClearChat
\* Lines 379-390 with confirm() answered yes: the state and the local record
\* are emptied; the remote delete is commented out.
HandleClearChat ==
  /\ mounted
  /\ messages' = <<>>
  /\ localHistory' = None
  /\ UNCHANGED << config, isLoading, conversationMode, remote, pending, clock,
                  loadPc, pc, pass, requests, outcome, loaded, history >>

\* ------------------------------------------------------- the settings
\* onModeChange = setConversationMode (line 406).
SetMode(mode) ==
  /\ mode # conversationMode
  /\ conversationMode' = mode
  /\ UNCHANGED << config, messages, isLoading, localHistory, remote, pending,
                  clock, loadPc, pc, pass, requests, outcome, loaded, history >>

\* ------------------------------------------------------------ reload
\* The page is loaded again: a new App is constructed (lines 183-185) and
\* mounted (lines 203-214).  The running handler and the select of the old
\* page are gone; both stores, the saved mode and the inserts already sent
\* stay.
Reload ==
  /\ nReloads < MaxReloads
  /\ nReloads' = nReloads + 1
  /\ messages' = IF supabase THEN <<>> ELSE localFallback(<<>>)
  /\ loadPc' = IF supabase THEN "select" ELSE "done"
  /\ isLoading' = FALSE
  /\ pc' = "Idle"
  /\ pass' = NoPass
  /\ outcome' = Outcome("none", 0)
  /\ loaded' = IF supabase THEN Loaded("none", FALSE) ELSE Loaded("local", FALSE)
  /\ requests' = <<>>
  /\ lastCall' = "none"
  /\ UNCHANGED << config, conversationMode, localHistory, remote, pending,
                  clock, nPasses, nInsertFailures >>

\* -------------------------------------------------------------- Spec
Next ==
  \/ \E userInput \in UserInputs : HandleSendMessage(userInput)
  \/ \E response \in FirstResponses : FirstResponse(response)
  \/ \E response \in SecondResponses : SecondResponse(response)
  \/ LoadReturn
  \/ HandleClearChat
  \/ \E rows \in pending : InsertFails(rows)
  \/ Reload

Spec == Init /\ [][Next]_vars

\* The same program with every call of handleSendMessage noted in lastCall,
\* the rejected ones too.
SendRecorded(userInput) == mounted /\ handleSendMessage(userInput, TRUE)

NextCalls ==
  \/ \E userInput \in UserInputs : SendRecorded(userInput)
  \/ \E response \in FirstResponses : FirstResponse(response)
  \/ \E response \in SecondResponses : SecondResponse(response)
  \/ LoadReturn
  \/ HandleClearChat
  \/ Reload

SpecCalls == Init /\ [][NextCalls]_vars

\* The program on one page, with every request answered in the end: fetch
\* settles each request with a response or a rejection.
NextLive ==
  \/ \E userInput \in UserInputs : HandleSendMessage(userInput)
  \/ \E response \in FirstResponses : FirstResponse(response)
  \/ \E response \in SecondResponses : SecondResponse(response)
  \/ LoadReturn
  \/ HandleClearChat

SpecLive ==
  /\ Init
  /\ [][NextLive]_vars
  /\ WF_vars(\E response \in FirstResponses : FirstResponse(response))
  /\ WF_vars(\E response \in SecondResponses : SecondResponse(response))

\* The program in a browser whose storage may be too full to take the log:
\* a first visit without a remote mirror.
InitQuota ==
  /\ supabase = FALSE
  /\ apiKey \in BOOLEAN
  /\ quota \in BOOLEAN
  /\ messages = <<>>
  /\ isLoading = FALSE
  /\ conversationMode = "Explicativo"
  /\ localHistory = None
  /\ remote = <<>>
  /\ pending = {}
  /\ clock = 0
  /\ loadPc = "done"
  /\ pc = "Idle"
  /\ pass = NoPass
  /\ outcome = Outcome("none", 0)
  /\ loaded = Loaded("local", FALSE)
  /\ requests = <<>>
  /\ lastCall = "none"
  /\ nPasses = 0
  /\ nReloads = 0
  /\ nInsertFailures = 0

NextQuota ==
  \/ \E userInput \in UserInputs : HandleSendMessage(userInput)
  \/ \E response \in FirstResponses : FirstResponse(response)
  \/ \E response \in SecondResponses : SecondResponse(response)
  \/ HandleClearChat
  \/ Reload

SpecQuota == InitQuota /\ [][NextQuota]_vars

\* The program with the settings menu in use: the mode is changed at any
\* time, also while a pass waits for a response.
NextMode ==
  \/ \E userInput \in UserInputs : HandleSendMessage(userInput)
  \/ \E response \in FirstResponses : FirstResponse(response)
  \/ \E response \in SecondResponses : SecondResponse(response)
  \/ LoadReturn
  \/ HandleClearChat
  \/ \E mode \in ConversationModes : SetMode(mode)
  \/ Reload

SpecMode == Init /\ [][NextMode]_vars

\* The program with a remote table whose select returns rows of equal
\* created_at in any order (the order by created_at decides nothing among
\* them), on one page: a key set so that every pass sends its requests, a
\* user who leaves the settings menu alone, and the select of the mount
\* settling at any time, before, between or after the passes.
InitTies == Init /\ supabase /\ apiKey

NextTies ==
  \/ \E userInput \in UserInputs : HandleSendMessage(userInput)
  \/ \E response \in FirstResponses : FirstResponse(response)
  \/ \E response \in SecondResponses : SecondResponse(response)
  \/ LoadReturnAnyOrder

SpecTies == InitTies /\ [][NextTies]_vars

\* The program with a user who clears the chat only when nothing is going
\* on: no pass in flight and the load of the page settled.
ClearChatIdle == pc = "Idle" /\ loadPc = "done" /\ HandleClearChat

NextClear ==
  \/ \E userInput \in UserInputs : HandleSendMessage(userInput)
  \/ \E response \in FirstResponses : FirstResponse(response)
  \/ \E response \in SecondResponses : SecondResponse(response)
  \/ LoadReturn
  \/ ClearChatIdle
  \/ Reload

SpecClear == Init /\ [][NextClear]_vars

\* =================================================================
\* Properties
\* =================================================================
Range(seq) == { seq[i] : i \in 1..Len(seq) }

IsPrefix(s, t) == Len(s) <= Len(t) /\ SubSeq(t, 1, Len(s)) = s

Last(seq) == seq[Len(seq)]

\* The step that starts a pass, and the step in which a pass that was
\* waiting for a response ends.
PassStarts == nPasses' = nPasses + 1
PassEnds == pc # "Idle" /\ pc' = "Idle" /\ nReloads' = nReloads


\* C1: the user message of a pass is appended to the log, in the state and
\* in the local record, in the step that issues the first request (so no
\* request precedes it), and it is still in the log when the pass ends,
\* however the pass ends.
C1_UserMessageSurvives ==
  [][ /\ (PassStarts =>
            \E m \in Range(messages') :
               /\ m.role = "user"
               /\ m \in Range(localHistory'[1])
               /\ (requests' # <<>> => Last(requests'[1].messages) = m))
      /\ (PassEnds => /\ pass.userMsg \in Range(messages')
                      /\ pass.userMsg \in Range(localHistory'[1]))
    ]_vars

\* C2: a call of handleSendMessage while a pass is in flight changes
\* nothing: no message appended to the state, the local record or the remote
\* mirror, no request sent, the busy flag and the pass left as they were.
C2_BusyCallIsNoOp ==
  [][ \A userInput \in UserInputs :
        (isLoading /\ SendRecorded(userInput)) =>
           UNCHANGED << messages, localHistory, remote, pending, isLoading,
                        pc, pass, requests, outcome, nPasses >>
    ]_vars

C2_Witness == lastCall = "busy" /\ isLoading /\ pc = "AwaitingSecondCompletion"

\* C3: at most one pass is in flight: a pass starts only when none is
\* waiting for a response, the busy flag is up exactly while one is, and the
\* requests of a pass are sent by that pass alone.
C3_OnePassInFlight ==
  [][ /\ (PassStarts => pc = "Idle" /\ ~isLoading)
      /\ (isLoading' <=> pc' # "Idle")
      /\ (pc # "Idle" /\ pc' # "Idle" =>
            /\ pass'.userMsg = pass.userMsg
            /\ IsPrefix(requests, requests'))
    ]_vars

C3_Witness ==
  /\ nPasses = 2
  /\ pc = "AwaitingSecondCompletion"
  /\ outcome = Outcome("none", 0)
  /\ Len(messages) > 1

\* The messages a step appended to the log.
Appended == SubSeq(messages', Len(messages) + 1, Len(messages'))

\* The step appended batch by one saveMessageToHistory: the state gets it at
\* its end, the local record is the state's new value, and one insert with
\* its rows, and no other, is sent when there is a remote mirror.
SavedOnce(batch) ==
  /\ messages' = messages \o batch
  /\ localHistory' = Some(messages')
  /\ pending' \ pending = IF supabase THEN { records(batch, clock') } ELSE {}
  /\ pending \subseteq pending'

\* The first response of the pass in flight, as the second request quotes it.
FirstAnswer == requests[2].messages[Len(requests[1].messages) + 1]

\* C4: when the first response carried tool calls c1..cn and nothing failed,
\* the pass persists by one append the batch of the assistant message with
\* its tool calls, the tool results of c1..cn in that order and the final
\* response; the step that runs the tools persists nothing.
C4_ToolBatchOrder ==
  [][ /\ (pc = "AwaitingFirstCompletion" /\ pc' = "AwaitingSecondCompletion" =>
            UNCHANGED << messages, localHistory, remote, pending >>)
      /\ (PassEnds /\ outcome'.how = "Done" /\ pc = "AwaitingSecondCompletion" =>
            LET calls == FirstAnswer.tool_calls[1]
                n     == Len(calls)
            IN  /\ SavedOnce(Appended)
                /\ Len(Appended) = n + 2
                /\ Appended[1] = FirstAnswer
                /\ \A i \in 1..n :
                     /\ Appended[i + 1].role = "tool"
                     /\ Appended[i + 1].tool_call_id = calls[i].id
                     /\ Appended[i + 1].name = calls[i].function.name
                /\ Appended[n + 2].role = "assistant")
    ]_vars

C4_Witness ==
  /\ outcome = Outcome("Done", 2)
  /\ Len(messages) = 5
  /\ messages[1].role = "user"
  /\ wantsTools(messages[2]) /\ Len(messages[2].tool_calls[1]) = 2
  /\ messages[3].role = "tool" /\ messages[3].tool_call_id = "call_1"
  /\ messages[4].role = "tool" /\ messages[4].tool_call_id = "call_2"
  /\ messages[5] = PlainReply

\* C5: a pass that fails after its user message was appended persists
\* exactly one message: an assistant message whose content is the warning
\* marker followed by the failure's message.  What the pass had gathered is
\* dropped: after a failed second request neither the assistant message with
\* the tool calls nor a tool result is persisted.
IsWarning(m) ==
  /\ m.role = "assistant"
  /\ m.tool_calls = None
  /\ Head(m.content) = WarningMarker
  /\ Len(m.content) > 1

C5_FailureBatch ==
  [][ /\ (PassEnds /\ outcome'.how = "Failed" =>
            /\ SavedOnce(Appended)
            /\ Len(Appended) = 1
            /\ IsWarning(Appended[1]))
      /\ (PassStarts /\ outcome'.how = "Failed" =>
            /\ messages' = messages \o Appended
            /\ localHistory' = Some(messages')
            /\ Len(Appended) = 2
            /\ Appended[1].role = "user"
            /\ IsWarning(Appended[2]))
    ]_vars

C5_Witness ==
  /\ outcome = Outcome("Failed", 2)
  /\ Len(messages) = 2
  /\ messages[1].role = "user"
  /\ messages[2] = errorMessage(Text("Chave de API invalida. Verifique suas configuracoes."))

\* C6: a load returns the primary store's content when there is a primary
\* store and its select returned rows without error, and then does not read
\* the local record; when there is no primary store, or the select failed or
\* returned no row, it returns the content of the local record (the empty
\* log when there is none).
LocalContent == IF localHistory # None THEN localHistory[1] ELSE <<>>

C6_LoadPrecedence ==
  [][ /\ (loadPc = "select" /\ loadPc' = "done" =>
            IF ~loaded'.error /\ remote' # <<>>
              THEN /\ loaded'.source = "primary"
                   /\ messages' = formatted(remote')
              ELSE /\ loaded'.source = "local"
                   /\ messages' = LocalContent)
      /\ (nReloads' # nReloads /\ ~supabase =>
            /\ loaded'.source = "local"
            /\ messages' = LocalContent)
    ]_vars

C6_Witness ==
  /\ loaded = Loaded("primary", FALSE)
  /\ localHistory # None
  /\ messages # localHistory[1]
  /\ messages = formatted(remote)

\* C7 as stated: the log is append-only under every operation, clear chat
\* and load included: each step leaves the previous log a prefix of the new.
C7_AppendOnlyAlways == [][IsPrefix(messages, messages')]_vars

\* C7, amended: every step but a clear chat, the end of a load and a page
\* load leaves the previous log a prefix of the new one; a clear chat
\* empties the log and the local record.
C7_AppendOnlyUnderAppend ==
  [][ /\ (loadPc' = loadPc /\ nReloads' = nReloads =>
            \/ IsPrefix(messages, messages')
            \/ HandleClearChat)
      /\ (messages' # messages /\ localHistory' # None
            /\ loadPc' = loadPc /\ nReloads' = nReloads =>
               /\ IsPrefix(messages, messages')
               /\ localHistory' = Some(messages'))
    ]_vars

C7_Witness ==
  /\ nPasses = 2
  /\ outcome.how = "Done"
  /\ Len(messages) > 2
  /\ localHistory = Some(messages)

\* C8: in every state of the log, every tool message carries the id of a
\* call of the nearest assistant message before it, and the tool messages
\* that answer one assistant message follow it directly, in the order of
\* its calls.
C8_ToolRefsMatch ==
  \A i \in 1..Len(messages) :
    messages[i].role = "tool" =>
      \E k \in 1..(i - 1) :
        /\ messages[k].role = "assistant"
        /\ wantsTools(messages[k])
        /\ i - k <= Len(messages[k].tool_calls[1])
        /\ messages[i].tool_call_id = messages[k].tool_calls[1][i - k].id
        /\ \A j \in (k + 1)..i : messages[j].role = "tool"

\* The responses to a first request that carry tool calls.
ToolResponses ==
  { response \in FirstResponses :
      response.kind = "ok" /\ wantsTools(response.message[1]) }

CallsOf(response) == response.message[1].tool_calls[1]

\* The arguments of toolCall do not parse.
Unparseable(toolCall) == ~JSONparse(toolCall.function.arguments).ok

\* The arguments of toolCall parse and fail the schema of the declared tool
\* it names: a required property is missing or is not a string.
FailsSchema(toolCall) ==
  /\ JSONparse(toolCall.function.arguments).ok
  /\ \E t \in 1..Len(tools) :
       /\ tools[t].name = toolCall.function.name
       /\ \E r \in 1..Len(tools[t].required) :
            JSONparse(toolCall.function.arguments)[tools[t].required[r]].t # "string"

\* C9: a first response with a tool call whose arguments do not parse ends
\* the pass in the step that receives it: no second request is sent, the
\* pass fails, and the one message persisted is the warning with the parse
\* error; no tool result, of that call or of an earlier one, is persisted.
C9_ParseFailureAborts ==
  [][ \A response \in ToolResponses :
        ( /\ \E i \in 1..Len(CallsOf(response)) : Unparseable(CallsOf(response)[i])
          /\ FirstResponse(response) ) =>
             /\ pc' = "Idle"
             /\ ~isLoading'
             /\ outcome' = Outcome("Failed", 1)
             /\ SavedOnce(<< errorMessage(SyntaxErrorMessage) >>)
    ]_vars

C9_Witness ==
  /\ outcome = Outcome("Failed", 1)
  /\ Len(messages) = 2
  /\ messages[1].role = "user"
  /\ messages[2] = errorMessage(SyntaxErrorMessage)

\* C10: a first response with a call of a declared tool whose arguments
\* parse and fail the tool's schema ends the pass in failure: no second
\* request is sent and no tool message is made of the call.
C10_SchemaFailureAborts ==
  [][ \A response \in ToolResponses :
        ( /\ \E i \in 1..Len(CallsOf(response)) : FailsSchema(CallsOf(response)[i])
          /\ FirstResponse(response) ) =>
             /\ pc' = "Idle"
             /\ outcome'.how = "Failed"
             /\ \A m \in Range(Appended) : m.role # "tool"
    ]_vars

\* The tool toolCall names is not among the declared ones.
Undeclared(toolCall) ==
  \A t \in 1..Len(tools) : tools[t].name # toolCall.function.name

AllParse(calls) == \A i \in 1..Len(calls) : ~Unparseable(calls[i])

UnknownToolText == Text("Ferramenta desconhecida.")

\* C11: a call of a tool that is not declared, with arguments that parse,
\* is answered by a tool message with the fixed text; the second request is
\* sent with it, and when the second response arrives the pass ends in Done
\* with the tool batch, that message in it.
C11_UnknownToolIsData ==
  [][ /\ \A response \in ToolResponses :
           (AllParse(CallsOf(response)) /\ FirstResponse(response)) =>
              /\ pc' = "AwaitingSecondCompletion"
              /\ Len(requests') = 2
              /\ \A i \in 1..Len(CallsOf(response)) :
                   Undeclared(CallsOf(response)[i]) =>
                     LET m == requests'[2].messages[Len(requests[1].messages) + 1 + i]
                     IN  /\ m.role = "tool"
                         /\ m.tool_call_id = CallsOf(response)[i].id
                         /\ m.content = UnknownToolText
      /\ (PassEnds /\ pc = "AwaitingSecondCompletion" /\ outcome'.how = "Done" =>
            \A i \in 1..Len(FirstAnswer.tool_calls[1]) :
              Undeclared(FirstAnswer.tool_calls[1][i]) =>
                /\ Appended[1 + i].role = "tool"
                /\ Appended[1 + i].content = UnknownToolText)
    ]_vars

C11_Witness ==
  /\ outcome = Outcome("Done", 2)
  /\ Len(messages) = 4
  /\ messages[3].role = "tool"
  /\ messages[3].name = "get_weather"
  /\ messages[3].content = UnknownToolText
  /\ messages[4] = PlainReply

\* C12: the failure of an insert into the remote table changes nothing the
\* caller sees: the log, the local record, the busy flag, the pass and its
\* requests stay as they are; and a pass whose inserts failed ends like any
\* other, its batch appended to the log and the local record the log's copy.
C12_InsertFailureIsSilent ==
  [][ /\ \A rows \in pending :
           InsertFails(rows) =>
             UNCHANGED << messages, localHistory, remote, isLoading, pc, pass,
                          requests, outcome, loaded >>
      /\ (nInsertFailures > 0 /\ PassEnds =>
            /\ SavedOnce(Appended)
            /\ Len(Appended) > 0
            /\ ~isLoading'
            /\ outcome'.how \in {"Done", "Failed"})
    ]_vars

C12_Witness ==
  /\ nInsertFailures = 1
  /\ outcome = Outcome("Done", 1)
  /\ Len(messages) = 2
  /\ localHistory = Some(messages)
  /\ remote = <<>>
  /\ Cardinality(pending) = 1
  /\ \A rows \in pending : rows[1].role = "assistant"

\* C13: there is no backfill.  A step that appends to the log sends inserts
\* for the messages it appended and for no other, stamped with the time of
\* the step, later than every row sent before; rows reach the table only
\* from an insert on its way; and an insert that fails leaves the table as
\* it is and is on its way no more.  So the rows of a failed insert, older
\* than every row sent after them, never reach the table.
C13_NoBackfill ==
  [][ /\ (loadPc' = loadPc /\ nReloads' = nReloads =>
            /\ pending \ pending' = {} \/ pending' \subseteq pending
            /\ pending' \ pending \in
                 IF ~supabase \/ Appended = <<>> THEN { {} }
                 ELSE { { records(Appended, clock') } }
                        \cup IF Len(Appended) # 2 THEN {}
                             ELSE { { records(<<Appended[1]>>, clock + 1),
                                      records(<<Appended[2]>>, clock') } })
      /\ (\A rows \in pending' \ pending : rows[1].created_at > clock)
      /\ (\A rows \in pending : rows[1].created_at <= clock)
      /\ (\A i \in 1..Len(remote) : remote[i].created_at <= clock)
      /\ (remote' # remote =>
            /\ pending' \subseteq pending
            /\ remote' = insertedAll(remote, pending \ pending'))
      /\ (\A rows \in pending :
            InsertFails(rows) => remote' = remote /\ pending' = pending \ {rows})
    ]_vars

C13_Witness ==
  /\ nInsertFailures = 1
  /\ pending = {}
  /\ remote # <<>>
  /\ localHistory # None
  /\ Len(localHistory[1]) > Len(remote)
  /\ messages = formatted(remote)

\* C14: when the write of the local record fails during the append of the
\* user message, the append fails for its caller: the pass sends no request
\* and ends in failure.
C14_LocalFailureSurfaced ==
  [][ (quota /\ PassStarts) =>
        /\ pc' = "Idle"
        /\ outcome'.how = "Failed"
        /\ requests' = <<>>
    ]_vars

\* The responses to a first request that carry a message without a tool
\* call: no tool_calls, or an empty list of them.
PlainResponses ==
  { response \in FirstResponses :
      /\ response.kind = "ok"
      /\ response.message[1].tool_calls \in { None, Some(<<>>) } }

\* C15: when the first response carries no tool call, the pass appends that
\* response, alone, by one append, sends no second request, runs no tool and
\* ends in Done.
C15_PlainReplyPass ==
  [][ \A response \in PlainResponses :
        FirstResponse(response) =>
          /\ SavedOnce(<< response.message[1] >>)
          /\ pc' = "Idle"
          /\ ~isLoading'
          /\ outcome' = Outcome("Done", 1)
          /\ \A m \in Range(Appended) : m.role # "tool"
    ]_vars

C15_Witness ==
  /\ outcome = Outcome("Done", 1)
  /\ Len(messages) = 2
  /\ messages[1].role = "user"
  /\ messages[2] = EmptyToolsReply
  /\ localHistory = Some(messages)

\* C16: the history of the first request of a pass is the log as the
\* message store holds it at the call (the rows of the remote table, or the
\* local record), followed by the new user message.
C16_FirstHistoryIsStoredLog ==
  [][ (PassStarts /\ requests' # <<>>) =>
        \E prior \in { formatted(remote), LocalContent } :
          /\ Len(requests'[1].messages) = Len(prior) + 2
          /\ requests'[1].messages[1].role = "system"
          /\ SubSeq(requests'[1].messages, 2, Len(prior) + 1) = prior
          /\ Last(requests'[1].messages).role = "user"
          /\ Last(requests'[1].messages) = Last(messages')
    ]_vars

\* C17: the second request is sent in the step that receives the first
\* response, after the tools have run; its history is the history of the
\* first request, then the assistant message that asked for the tools, then
\* one tool message for each call, in the order of the calls.
C17_SecondHistory ==
  [][ /\ (Len(requests') = 2 /\ Len(requests) # 2 =>
            /\ pc = "AwaitingFirstCompletion"
            /\ Len(requests) = 1)
      /\ \A response \in ToolResponses :
           (AllParse(CallsOf(response)) /\ FirstResponse(response)) =>
              LET calls  == CallsOf(response)
                  first  == requests[1].messages
                  second == requests'[2].messages
              IN  /\ requests'[1] = requests[1]
                  /\ Len(second) = Len(first) + 1 + Len(calls)
                  /\ SubSeq(second, 1, Len(first)) = first
                  /\ second[Len(first) + 1] = response.message[1]
                  /\ \A i \in 1..Len(calls) :
                       /\ second[Len(first) + 1 + i].role = "tool"
                       /\ second[Len(first) + 1 + i].tool_call_id = calls[i].id
                       /\ second[Len(first) + 1 + i].name = calls[i].function.name
    ]_vars

C17_Witness ==
  /\ pc = "AwaitingSecondCompletion"
  /\ Len(requests) = 2
  /\ Len(requests[2].messages) = Len(requests[1].messages) + 3
  /\ Last(requests[2].messages).tool_call_id = "call_2"
  /\ Len(requests[1].messages) > 2

\* The responses with a status that is not a success.
StatusResponses ==
  { response \in FirstResponses \cup SecondResponses : response.kind = "status" }

\* The text the claim gives a status response: the invalid-key text for
\* 401, else the message the server reported or, without one, the status
\* text.
StatusText(response) ==
  IF response.status = 401 THEN InvalidKeyMessage
  ELSE << "Erro API Mistral: ",
          IF response.errMessage # None THEN response.errMessage[1]
          ELSE response.statusText >>

\* C18: a response with status 401 ends the pass in failure with one
\* message persisted, the warning with the invalid-key text; a response
\* with another failing status ends it with the warning that carries the
\* message the server reported or, without one, the status text; the user
\* message persisted before stays.
C18_StatusFailures ==
  [][ \A response \in StatusResponses :
        (FirstResponse(response) \/ SecondResponse(response)) =>
          /\ PassEnds
          /\ outcome'.how = "Failed"
          /\ SavedOnce(<< errorMessage(StatusText(response)) >>)
          /\ (pass.userMsg \in Range(messages) => pass.userMsg \in Range(messages'))
    ]_vars

\* C19: every pass in flight ends, given that each request is answered:
\* the pass reaches Done or Failed, and the App is then idle with the busy
\* flag down.
C19_PassTerminates ==
  (pc # "Idle") ~>
     (pc = "Idle" /\ ~isLoading /\ outcome.how \in {"Done", "Failed"})

C19_Witness ==
  /\ pc = "Idle"
  /\ ~isLoading
  /\ outcome = Outcome("Failed", 2)
  /\ nPasses = 2

\* C20: a pass sends at most two requests: one, when the first response
\* carries no tool call or the first request fails; two, when the first
\* response carries tool calls whose arguments all parse.  A request that
\* failed is not sent again: the failure ends the pass.
C20_AtMostTwoRequests ==
  [][ /\ Len(requests') <= 2
      /\ (PassStarts => Len(requests') = IF apiKey THEN 1 ELSE 0)
      /\ (pc # "Idle" /\ pc' # "Idle" => IsPrefix(requests, requests'))
      /\ \A response \in FirstResponses :
           FirstResponse(response) =>
             IF /\ response.kind = "ok"
                /\ response \notin PlainResponses
                /\ AllParse(CallsOf(response))
               THEN Len(requests') = 2 /\ pc' = "AwaitingSecondCompletion"
               ELSE /\ pc' = "Idle"
                    /\ outcome'.sent = 1
                    /\ (response.kind # "ok" => outcome'.how = "Failed")
      /\ \A response \in SecondResponses :
           SecondResponse(response) =>
             /\ pc' = "Idle"
             /\ outcome'.sent = 2
             /\ (response.kind # "ok" => outcome'.how = "Failed")
    ]_vars

C20_Witness ==
  /\ outcome = Outcome("Failed", 1)
  /\ pc = "Idle"
  /\ Len(messages) = 2
  /\ messages[2] = errorMessage(Text("Failed to fetch"))

\* C21: running the tools and exchanging completions write nothing.  The
\* step that receives the first response and runs the tools leaves the log,
\* the local record, the remote table and the inserts on their way as they
\* were, and the tool messages it made are in the pass's toolUseHistory and
\* newMessagesToSave only; a response step that writes is the end of the
\* pass and writes by one append.
C21_ToolsWriteNothing ==
  [][ /\ \A response \in FirstResponses :
           (FirstResponse(response) /\ pc' # "Idle") =>
              /\ UNCHANGED << messages, localHistory, remote, pending >>
              /\ \A i \in 1..Len(CallsOf(response)) :
                   LET m == pass'.newMessagesToSave[1 + i]
                   IN  /\ m.role = "tool"
                       /\ m = pass'.toolUseHistory[Len(pass.messages) + 2 + i]
                       /\ m = Last(requests').messages[Len(pass.messages) + 3 + i]
      /\ \A response \in FirstResponses \cup SecondResponses :
           (FirstResponse(response) \/ SecondResponse(response)) =>
              /\ remote' = remote
              /\ \/ UNCHANGED << messages, localHistory, pending >>
                 \/ PassEnds /\ SavedOnce(Appended) /\ Len(Appended) > 0
    ]_vars

C21_Witness ==
  /\ pc = "AwaitingSecondCompletion"
  /\ Len(pass.newMessagesToSave) = 3
  /\ pass.newMessagesToSave[3].role = "tool"
  /\ messages = << pass.userMsg >>
  /\ localHistory = Some(messages)
  /\ \A m \in Range(messages) : m.role # "tool"

\* The body of a request sent for history in mode, as the claim gives it:
\* the system message composed from mode, then the messages of history, each
\* in its place; the declared tools with it.
CarriesHistory(body, past, mode) ==
  /\ Len(body.messages) = Len(past) + 1
  /\ body.messages[1].role = "system"
  /\ body.messages[1].content = getSystemPrompt(mode)
  /\ \A i \in 1..Len(past) : body.messages[i + 1] = past[i]
  /\ \A i \in 2..Len(body.messages) : body.messages[i].role # "system"
  /\ body.tools = tools

LoadAfterAppends ==
  /\ loadPc = "select" /\ loadPc' = "done"
  /\ nReloads > 0
  /\ pc = "Idle" /\ outcome.how = "none"

\* m is in log, by role and content.
Holds(log, m) ==
  \E i \in 1..Len(log) : log[i].role = m.role /\ log[i].content = m.content

\* C24: a batch appended while the write of the local record succeeds is
\* returned by every later load, no clear chat between the two.  The local
\* record, when there is one, ends with the batch appended last, and no
\* clear chat has come since; so the log a later load returns holds the
\* last message of the local record.
C24_AppendedIsLoaded ==
  [][ (LoadAfterAppends /\ localHistory # None) =>
         Holds(messages', Last(localHistory[1]))
    ]_vars

\* C25: an append leaves what the local record held in place: the content
\* of the local record before a step that appends a batch is a prefix of
\* its content after, and the content after is the content before followed
\* by the batch, also when the log in the state was loaded from the remote
\* table.
C25_LocalRecordGrows ==
  [][ (PassStarts \/ PassEnds) =>
         /\ IsPrefix(LocalContent, LocalContent')
         /\ LocalContent' = LocalContent \o Appended
    ]_vars

\* C26: a message comes back from the remote table as it was appended.
\* The rows a step sends are those of the messages it appended, and what
\* the load's mapper makes of each row is the message the row was made of,
\* equal in role, content, tool_calls, tool_call_id and name.
C26_PrimaryRoundTrip ==
  [][ \A rows \in pending' \ pending :
        \E from \in 1..Len(Appended) :
          /\ from + Len(rows) - 1 <= Len(Appended)
          /\ \A i \in 1..Len(rows) :
               LET sent == Appended[from + i - 1]
                   back == formatted(rows)[i]
               IN  /\ back.role = sent.role
                   /\ back.content = sent.content
                   /\ back.tool_calls = sent.tool_calls
                   /\ back.tool_call_id = sent.tool_call_id
                   /\ back.name = sent.name
    ]_vars

\* C27: a load from the remote table returns the messages in the order in
\* which they were appended, those of one batch in the order of the batch
\* and the batches in the order of their appends.  With a key set every
\* append has a created_at of its own, so the table as kept here, in
\* created_at order with the rows of one insert in their order, is in
\* append order.
C27_PrimaryOrder ==
  [][ (loadPc = "select" /\ loadPc' = "done" /\ loaded'.source = "primary") =>
         messages' = formatted(remote')
    ]_vars

\* C28: the final batch of a pass lands directly after the pass's own user
\* message: in the step in which a pass ends, the log before the append
\* ends with the user message of that pass, whatever the load of the mount
\* and clear chat did while the pass waited.
C28_BatchFollowsUserMessage ==
  [][ PassEnds =>
        /\ messages # <<>>
        /\ Last(messages) = pass.userMsg
        /\ messages' = messages \o Appended
    ]_vars

\* C29: after a clear chat with no pass in flight the history is gone.  The
\* clear leaves the log empty and no local record; and a load that settles
\* while there is no local record (no message has been appended since the
\* clear, and the load was called after it, on the next page) returns the
\* empty log, with a remote table and without one.
C29_ClearedStaysCleared ==
  [][ /\ (ClearChatIdle => messages' = <<>> /\ localHistory' = None)
      /\ ( ( /\ localHistory = None
             /\ \/ loadPc = "select" /\ loadPc' = "done"
                \/ nReloads' # nReloads /\ ~supabase ) =>
           messages' = <<>> )
    ]_vars

\* C30: in every state of the log, an assistant message that carries tool
\* calls is followed directly by one tool message for each of its calls and
\* by no further tool message; so also the second response of a pass, when
\* it carries tool calls.  (Which call each tool message answers is C8's
\* matter; here the messages are counted by role.)
C30_ToolCallsAnswered ==
  \A k \in 1..Len(messages) :
    (messages[k].role = "assistant" /\ wantsTools(messages[k])) =>
      LET n == Len(messages[k].tool_calls[1])
      IN  /\ k + n <= Len(messages)
          /\ \A j \in 1..n : messages[k + j].role = "tool"
          /\ (k + n + 1 <= Len(messages) => messages[k + n + 1].role # "tool")

\* C31: a call of handleSendMessage with text that is empty, or empty once
\* trimmed, changes nothing, in whatever state it is made: no message is
\* appended to the log, the local record and the remote table stay as they
\* are and no insert is sent, no request is sent, no pass starts and the
\* busy flag keeps its value.
C31_BlankCallIsNoOp ==
  [][ \A userInput \in UserInputs :
        (trim(userInput) = "" /\ SendRecorded(userInput)) =>
           /\ lastCall' = "blank"
           /\ UNCHANGED << messages, localHistory, remote, pending, clock,
                           isLoading, pc, pass, requests, outcome, nPasses >>
    ]_vars

C31_Witness ==
  /\ lastCall = "blank"
  /\ pc = "Idle"
  /\ ~isLoading
  /\ nPasses = 1
  /\ Len(messages) = 2
  /\ localHistory = Some(messages)

====
